---- MODULE Spec2Model ----
(***************************************************************************)
(* The IBLM provider (behavioural metrics, interaction tracker,            *)
(* recommendation policy, content buffer) and the Feed's hydration         *)
(* pipeline of KidOS.  The provider modelled is the one the Feed runs      *)
(* against: src/components/Feed.tsx lines 164-280 (it carries              *)
(* topicStickiness, contentBuffer and setBuffer); the Feed component is    *)
(* src/components/Feed.tsx lines 48-161.                                   *)
(*                                                                         *)
(* React scheduling: an event handler or promise continuation runs to      *)
(* completion, its state updates are applied in the order they were        *)
(* enqueued, the component re-renders and the effects whose dependencies   *)
(* changed run before the next event is handled.  One action is therefore  *)
(* one handler together with the render and the effects it triggers.       *)
(* Inside a handler, values read from the render closure (metrics,         *)
(* contentBuffer, visibleIndex) are the values before the handler's own    *)
(* updates; functional updaters (prev => ...) see the updates enqueued     *)
(* before them.                                                            *)
(***************************************************************************)
EXTENDS Integers, Sequences, FiniteSets, Bags, TLC

VARIABLES
    metrics,             \* useState<IBLMMetrics>
    activeInteraction,   \* useRef<Interaction | null>
    interactionHistory,  \* useRef<number[]>, newest duration first
    contentBuffer,       \* useState<FeedItem[]>
    feedMounted,         \* a Feed component instance is mounted
    visibleIndex,        \* Feed: useState(0)
    imageRequests,       \* generateImage calls awaiting their result (a bag)
    initialRequests,     \* loadInitialTrack calls awaiting generatePredictivePackage
    extendRequests,      \* extendTrack calls awaiting generatePredictivePackage
    nextId,              \* ids handed out to generated items so far
    issued,              \* history: generateImage calls made per item id
    rec,                 \* history: result of the decideNextContent() call just made
    pinned               \* history: one earlier decideNextContent() call, metrics and result

provVars == <<metrics, activeInteraction, interactionHistory>>
pipeVars == <<contentBuffer, imageRequests, issued>>
feedVars == <<feedMounted, visibleIndex, initialRequests, extendRequests, nextId>>
vars == <<metrics, activeInteraction, interactionHistory, contentBuffer,
          feedMounted, visibleIndex, imageRequests, initialRequests, extendRequests,
          nextId, issued, rec, pinned>>

----------------------------------------------------------------------------
(* Bounds of the model *)

MaxItems == 4        \* items generatePredictivePackage hands out in one run
MaxBatch == 2        \* largest batch one generatePredictivePackage call returns
MaxInitial == 2      \* loadInitialTrack calls outstanding at once
MaxExtend == 2       \* extendTrack calls outstanding at once
MaxSession == 2      \* session ticks modelled
MaxDeficit == 1      \* how far below 0 frustrationLevel is followed

(* Policy constants of the code *)

HistoryWindow == 5
AttentionBaseline == 5000
StickinessBaseline == 5
LevelCap == 10
FrustrationThreshold == 3
AttentionThreshold == 4000
StickinessThreshold == 7
LongDwell == 10000
LookAhead == 2
ExtendMargin == 2

(* Inputs *)

Durations == {12500}                 \* ages (ms) the clock is advanced to
Amounts == {-1, 1, 4}                \* arguments of reportFrustration
ItemIds == 1..MaxItems
NoInteraction == [id |-> 0, elapsed |-> 0, type |-> "none"]
NoRec == [difficulty |-> "NONE", format |-> "NONE", topicCategory |-> "NONE", reason |-> "NONE"]
NoPin == [m |-> <<>>, r |-> NoRec, n |-> 0]
NoImage == 0                         \* imageUrl: ''

Min(a, b) == IF a < b THEN a ELSE b
Max(a, b) == IF a > b THEN a ELSE b

RECURSIVE Sum(_)
Sum(s) == IF s = <<>> THEN 0 ELSE Head(s) + Sum(Tail(s))

\* Math.round(sum / n) for sum >= 0, n > 0: floor(sum/n + 1/2)
MathRound(sum, n) == (2 * sum + n) \div (2 * n)

----------------------------------------------------------------------------
(* IBLMProvider *)

InitialMetrics ==
    [attentionSpan |-> AttentionBaseline, frustrationLevel |-> 0, curiosityType |-> "VISUAL",
     energyLevel |-> "CALM", sessionDuration |-> 0, topicStickiness |-> StickinessBaseline]

\* the new duration pushed at the end, so that slice(0, 5) drops it once five are kept
PushHistory_atEnd(duration, history) ==
    SubSeq(history \o <<duration>>, 1, Min(HistoryWindow, Len(history) + 1))

\* [duration, ...interactionHistory.current].slice(0, 5)
PushHistory(duration, history) ==
    SubSeq(<<duration>> \o history, 1, Min(HistoryWindow, Len(history) + 1))

\* an updater that counts a dwell of exactly 10000 ms as a long one
EndUpdate_atLeast(prev, newHistory, duration, success) ==
    [prev EXCEPT
        !.attentionSpan = MathRound(Sum(newHistory), Len(newHistory)),
        !.energyLevel = IF Sum(newHistory) < AttentionThreshold * Len(newHistory)
                        THEN "HIGH" ELSE "CALM",
        !.frustrationLevel = IF success THEN Max(0, prev.frustrationLevel - 1)
                             ELSE prev.frustrationLevel,
        !.topicStickiness = IF duration >= LongDwell
                            THEN Min(LevelCap, prev.topicStickiness + 1)
                            ELSE Max(0, prev.topicStickiness - 1)]

\* an updater that derives energyLevel from the rounded attentionSpan
EndUpdate_fromRounded(prev, newHistory, duration, success) ==
    [prev EXCEPT
        !.attentionSpan = MathRound(Sum(newHistory), Len(newHistory)),
        !.energyLevel = IF MathRound(Sum(newHistory), Len(newHistory)) < AttentionThreshold
                        THEN "HIGH" ELSE "CALM",
        !.frustrationLevel = IF success THEN Max(0, prev.frustrationLevel - 1)
                             ELSE prev.frustrationLevel,
        !.topicStickiness = IF duration > LongDwell
                            THEN Min(LevelCap, prev.topicStickiness + 1)
                            ELSE Max(0, prev.topicStickiness - 1)]

\* the setMetrics updater of endInteraction, applied to prev
\* an endInteraction whose stickiness increment has no cap
EndUpdate_uncapped(prev, newHistory, duration, success) ==
    [prev EXCEPT
        !.attentionSpan = MathRound(Sum(newHistory), Len(newHistory)),
        !.energyLevel = IF Sum(newHistory) < AttentionThreshold * Len(newHistory)
                        THEN "HIGH" ELSE "CALM",
        !.frustrationLevel = IF success THEN Max(0, prev.frustrationLevel - 1)
                             ELSE prev.frustrationLevel,
        !.topicStickiness = IF duration > LongDwell
                            THEN prev.topicStickiness + 1
                            ELSE Max(0, prev.topicStickiness - 1)]

EndUpdate(prev, newHistory, duration, success) ==
    [prev EXCEPT
        !.attentionSpan = MathRound(Sum(newHistory), Len(newHistory)),
        !.energyLevel = IF Sum(newHistory) < AttentionThreshold * Len(newHistory)
                        THEN "HIGH" ELSE "CALM",
        !.frustrationLevel = IF success THEN Max(0, prev.frustrationLevel - 1)
                             ELSE prev.frustrationLevel,
        !.topicStickiness = IF duration > LongDwell
                            THEN Min(LevelCap, prev.topicStickiness + 1)
                            ELSE Max(0, prev.topicStickiness - 1)]

\* an endInteraction without the test for an active interaction
endInteraction_unguarded(m, active, history, success) ==
    [m |-> EndUpdate(m, PushHistory(active.elapsed, history), active.elapsed, success),
     active |-> NoInteraction,
     history |-> PushHistory(active.elapsed, history)]

\* endInteraction(success) as a function of the provider's state
endInteraction(m, active, history, success) ==
    IF active = NoInteraction
    THEN [m |-> m, active |-> active, history |-> history]
    ELSE LET duration == active.elapsed
             newHistory == PushHistory(duration, history)
         IN [m |-> EndUpdate(m, newHistory, duration, success),
             active |-> NoInteraction,
             history |-> newHistory]

\* a start that keeps the clock of the interaction it replaces
startInteraction_keepsClock(id, type) ==
    [id |-> id, elapsed |-> activeInteraction.elapsed, type |-> type]

\* startInteraction(id, type): startTime = Date.now(), kept as the age of the interaction
startInteraction(id, type) == [id |-> id, elapsed |-> 0, type |-> type]

\* a tick that writes the metrics of the first render with the new sessionDuration
TickUpdate_fromFirstRender(m) ==
    [InitialMetrics EXCEPT !.sessionDuration = m.sessionDuration + 1]

\* setMetrics(m => ({...m, sessionDuration: m.sessionDuration + 1}))
TickUpdate(m) == [m EXCEPT !.sessionDuration = @ + 1]

\* reportFrustration(amount: number = 1) called without an argument
DefaultAmount == 1

\* a reportSuccess that subtracts 1
SuccessUpdate_byOne(prev) ==
    [prev EXCEPT !.frustrationLevel = Max(0, prev.frustrationLevel - 1)]

FrustrationUpdate(prev, amount) ==
    [prev EXCEPT !.frustrationLevel = Min(LevelCap, prev.frustrationLevel + amount)]

SuccessUpdate(prev) ==
    [prev EXCEPT !.frustrationLevel = Max(0, prev.frustrationLevel - 2)]

ResetValue ==
    [attentionSpan |-> AttentionBaseline, frustrationLevel |-> 0, curiosityType |-> "VISUAL",
     energyLevel |-> "CALM", sessionDuration |-> 0, topicStickiness |-> StickinessBaseline]

Recommendation(d, f, t, r) == [difficulty |-> d, format |-> f, topicCategory |-> t, reason |-> r]

\* a policy that also looks at the interaction history (three fast scrolls in a row)
decideNextContent_history(m) ==
    IF m.frustrationLevel > FrustrationThreshold
    THEN Recommendation("EASY", "GAME", "CALM", "CALMING ESCAPE")
    ELSE IF m.attentionSpan < AttentionThreshold
            \/ (Len(interactionHistory) >= 3
                /\ \A i \in 1..3 : interactionHistory[i] < AttentionBaseline)
    THEN Recommendation("EASY", "VIDEO", "HIGH_ENERGY", "RECAPTURING FOCUS")
    ELSE IF m.topicStickiness > StickinessThreshold
    THEN Recommendation("HARD", "STORY", "STANDARD", "DEEP DIVE")
    ELSE Recommendation("MEDIUM", "FACT", "STANDARD", "GENERAL DISCOVERY")

\* a policy with rules 1 and 2 in the other order
decideNextContent_attentionFirst(m) ==
    IF m.attentionSpan < AttentionThreshold
    THEN Recommendation("EASY", "VIDEO", "HIGH_ENERGY", "RECAPTURING FOCUS")
    ELSE IF m.frustrationLevel > FrustrationThreshold
    THEN Recommendation("EASY", "GAME", "CALM", "CALMING ESCAPE")
    ELSE IF m.topicStickiness > StickinessThreshold
    THEN Recommendation("HARD", "STORY", "STANDARD", "DEEP DIVE")
    ELSE Recommendation("MEDIUM", "FACT", "STANDARD", "GENERAL DISCOVERY")

\* a policy with rules 2 and 3 in the other order
decideNextContent_swapped(m) ==
    IF m.frustrationLevel > FrustrationThreshold
    THEN Recommendation("EASY", "GAME", "CALM", "CALMING ESCAPE")
    ELSE IF m.topicStickiness > StickinessThreshold
    THEN Recommendation("HARD", "STORY", "STANDARD", "DEEP DIVE")
    ELSE IF m.attentionSpan < AttentionThreshold
    THEN Recommendation("EASY", "VIDEO", "HIGH_ENERGY", "RECAPTURING FOCUS")
    ELSE Recommendation("MEDIUM", "FACT", "STANDARD", "GENERAL DISCOVERY")

\* a policy whose default rule is tested at topicStickiness >= 7
decideNextContent_sticky(m) ==
    IF m.frustrationLevel > FrustrationThreshold
    THEN Recommendation("EASY", "GAME", "CALM", "CALMING ESCAPE")
    ELSE IF m.attentionSpan < AttentionThreshold
    THEN Recommendation("EASY", "VIDEO", "HIGH_ENERGY", "RECAPTURING FOCUS")
    ELSE IF m.topicStickiness >= StickinessThreshold
    THEN Recommendation("HARD", "STORY", "STANDARD", "DEEP DIVE")
    ELSE Recommendation("MEDIUM", "FACT", "STANDARD", "GENERAL DISCOVERY")

\* decideNextContent(), m being the metrics of the render closure
decideNextContent(m) ==
    IF m.frustrationLevel > FrustrationThreshold
    THEN Recommendation("EASY", "GAME", "CALM", "CALMING ESCAPE")
    ELSE IF m.attentionSpan < AttentionThreshold
    THEN Recommendation("EASY", "VIDEO", "HIGH_ENERGY", "RECAPTURING FOCUS")
    ELSE IF m.topicStickiness > StickinessThreshold
    THEN Recommendation("HARD", "STORY", "STANDARD", "DEEP DIVE")
    ELSE Recommendation("MEDIUM", "FACT", "STANDARD", "GENERAL DISCOVERY")

----------------------------------------------------------------------------
(* Feed: content buffer and hydration pipeline *)

\* a skeleton as loadInitialTrack / extendTrack install it
\* a skeleton that enters the buffer already marked as requested
EmptyItem_hydrating(id) == [id |-> id, imageUrl |-> NoImage, hydrationStatus |-> "HYDRATED"]

EmptyItem(id) == [id |-> id, imageUrl |-> NoImage, hydrationStatus |-> "EMPTY"]

\* pkg.map(p => ({...p, imageUrl: '', hydrationStatus: 'EMPTY'})) for a package of n items
NewItems(first, n) == [k \in 1..n |-> EmptyItem(first + k)]

\* contentBuffer[index] is defined (JS indices start at 0)
InBuffer(buf, index) == index >= 0 /\ index < Len(buf)
At(buf, index) == buf[index + 1]

\* prev.map((it, i) => i === index ? {...it, hydrationStatus: 'HYDRATED'} : it)
MarkHydrating(prev, index) ==
    [i \in DOMAIN prev |->
        IF i = index + 1 THEN [prev[i] EXCEPT !.hydrationStatus = "HYDRATED"] ELSE prev[i]]

\* a completion that also completes every item before its own
MarkReady_upTo(prev, index, img) ==
    [i \in DOMAIN prev |->
        IF i <= index + 1 THEN [prev[i] EXCEPT !.imageUrl = img, !.hydrationStatus = "READY"]
        ELSE prev[i]]

\* a completion that marks its item READY and attaches nothing
MarkReady_noImage(prev, index, img) ==
    [i \in DOMAIN prev |->
        IF i = index + 1 THEN [prev[i] EXCEPT !.hydrationStatus = "READY"] ELSE prev[i]]

\* prev.map((it, i) => i === index ? {...it, imageUrl: img, hydrationStatus: 'READY'} : it)
MarkReady(prev, index, img) ==
    [i \in DOMAIN prev |->
        IF i = index + 1 THEN [prev[i] EXCEPT !.imageUrl = img, !.hydrationStatus = "READY"]
        ELSE prev[i]]

\* the new items put in front of the buffer
AppendItems_front(prev, newItems) == newItems \o prev

\* [...prev, ...newItems]
AppendItems(prev, newItems) == prev \o newItems

\* a handler's view of the pipeline while it runs
Pipeline(buf, reqs, iss) == [buf |-> buf, reqs |-> reqs, issued |-> iss]

\* a guard that only tests that the item exists
Hydratable_anyStatus(snap, index) == InBuffer(snap, index)

\* the guard of hydrateItem, read from the render closure snap
Hydratable(snap, index) ==
    InBuffer(snap, index) /\ At(snap, index).hydrationStatus = "EMPTY"

\* an index beyond the buffer taken as the index of the last item
hydrateItem_lastItem(snap, st, index) ==
    LET k == IF index >= Len(snap) /\ Len(snap) > 0 THEN Len(snap) - 1 ELSE index
    IN IF ~Hydratable(snap, k)
       THEN st
       ELSE [buf |-> MarkHydrating(st.buf, k),
             reqs |-> st.reqs (+) SetToBag({[index |-> k, title |-> At(snap, k).id]}),
             issued |-> [st.issued EXCEPT ![At(snap, k).id] = @ + 1]]

\* hydrateItem(index) up to its await: snap is the contentBuffer of the render closure,
\* st.buf the state the functional updater is applied to
hydrateItem(snap, st, index) ==
    IF ~Hydratable(snap, index)
    THEN st
    ELSE LET item == At(snap, index)
             request == [index |-> index, title |-> item.id]
         IN [buf |-> MarkHydrating(st.buf, index),
             reqs |-> st.reqs (+) SetToBag({request}),
             issued |-> [st.issued EXCEPT ![item.id] = @ + 1]]

\* a look-ahead effect that reaches one item further
LookAheadEffect_wide(buf, v, st) ==
    IF Len(buf) > 0
    THEN hydrateItem(buf, hydrateItem(buf, hydrateItem(buf, hydrateItem(buf, st, v), v + 1),
                                      v + LookAhead), v + LookAhead + 1)
    ELSE st

\* the look-ahead effect of the render whose contentBuffer is buf and visibleIndex is v
LookAheadEffect(buf, v, st) ==
    IF Len(buf) > 0
    THEN hydrateItem(buf, hydrateItem(buf, hydrateItem(buf, st, v), v + 1), v + LookAhead)
    ELSE st

\* the effects of the render that follows a handler: the look-ahead effect runs on
\* mount and when visibleIndex or contentBuffer.length changed
Rendered(mounted, justMounted, buf, v) ==
    LET st == Pipeline(buf, imageRequests, issued)
    IN IF mounted /\ (justMounted \/ v # visibleIndex \/ Len(buf) # Len(contentBuffer))
       THEN LookAheadEffect(buf, v, st)
       ELSE st

Commit(st) ==
    /\ contentBuffer' = st.buf
    /\ imageRequests' = st.reqs
    /\ issued' = st.issued

----------------------------------------------------------------------------
(* Initial states *)

InitProvider ==
    /\ metrics = InitialMetrics
    /\ activeInteraction = NoInteraction
    /\ interactionHistory = <<>>
    /\ contentBuffer = <<>>

InitHistory ==
    /\ issued = [id \in ItemIds |-> 0]
    /\ rec = NoRec
    /\ pinned = NoPin

\* App mounted: the provider is fresh, the Feed is the first view, and its mount
\* effect has found the buffer empty and called loadInitialTrack
Init ==
    /\ InitProvider
    /\ InitHistory
    /\ feedMounted = TRUE
    /\ visibleIndex = 0
    /\ imageRequests = EmptyBag
    /\ initialRequests = 1
    /\ extendRequests = 0
    /\ nextId = 0

\* the provider alone, driven through the operations of its context value
InitIBLM ==
    /\ InitProvider
    /\ InitHistory
    /\ feedMounted = FALSE
    /\ visibleIndex = 0
    /\ imageRequests = EmptyBag
    /\ initialRequests = 0
    /\ extendRequests = 0
    /\ nextId = 0

----------------------------------------------------------------------------
(* Operations of the provider's context value *)

StartInteraction(id, type) ==
    /\ activeInteraction' = startInteraction(id, type)
    /\ rec' = NoRec
    /\ UNCHANGED <<metrics, interactionHistory, pipeVars, feedVars, pinned>>

\* the clock advances until the active interaction is d ms old
AdvanceTime(d) ==
    /\ activeInteraction # NoInteraction
    /\ activeInteraction.elapsed < d
    /\ activeInteraction' = [activeInteraction EXCEPT !.elapsed = d]
    /\ rec' = NoRec
    /\ UNCHANGED <<metrics, interactionHistory, pipeVars, feedVars, pinned>>

EndInteraction(success) ==
    LET e == endInteraction(metrics, activeInteraction, interactionHistory, success)
    IN /\ metrics' = e.m
       /\ activeInteraction' = e.active
       /\ interactionHistory' = e.history
       /\ rec' = NoRec
       /\ UNCHANGED <<pipeVars, feedVars, pinned>>

ReportFrustration(amount) ==
    /\ metrics.frustrationLevel + amount >= 0 - MaxDeficit
    /\ metrics' = FrustrationUpdate(metrics, amount)
    /\ rec' = NoRec
    /\ UNCHANGED <<activeInteraction, interactionHistory, pipeVars, feedVars, pinned>>

ReportSuccess ==
    /\ metrics' = SuccessUpdate(metrics)
    /\ rec' = NoRec
    /\ UNCHANGED <<activeInteraction, interactionHistory, pipeVars, feedVars, pinned>>

\* the setInterval callback of the session timer
Tick ==
    /\ metrics.sessionDuration < MaxSession
    /\ metrics' = TickUpdate(metrics)
    /\ rec' = NoRec
    /\ UNCHANGED <<activeInteraction, interactionHistory, pipeVars, feedVars, pinned>>

\* a reset that also drops the active interaction
ResetMetrics_dropsActive ==
    /\ metrics' = ResetValue
    /\ interactionHistory' = <<>>
    /\ activeInteraction' = NoInteraction
    /\ Commit(Rendered(feedMounted, FALSE, <<>>, visibleIndex))
    /\ rec' = NoRec
    /\ UNCHANGED <<feedVars, pinned>>

\* resetMetrics(): setMetrics(baseline), history cleared, setBuffer([]); a mounted Feed
\* re-renders with the empty buffer
ResetMetrics ==
    /\ metrics' = ResetValue
    /\ interactionHistory' = <<>>
    /\ Commit(Rendered(feedMounted, FALSE, <<>>, visibleIndex))
    /\ rec' = NoRec
    /\ UNCHANGED <<activeInteraction, feedVars, pinned>>

\* a decideNextContent() call made outside any other handler (an effect of a consumer)
DecideNextContent ==
    /\ rec' = decideNextContent(metrics)
    /\ UNCHANGED <<provVars, pipeVars, feedVars, pinned>>

\* the same call, remembered for comparison with every later call
DecideAndPin ==
    /\ pinned = NoPin
    /\ rec' = decideNextContent(metrics)
    /\ pinned' = [m |-> metrics, r |-> rec', n |-> Len(interactionHistory)]
    /\ UNCHANGED <<provVars, pipeVars, feedVars>>

----------------------------------------------------------------------------
(* The Feed component *)

\* the mount effect (loadInitialTrack, which calls decideNextContent(), when the buffer
\* is empty) and the first run of the look-ahead effect
FeedMount ==
    /\ ~feedMounted
    /\ contentBuffer = <<>> => initialRequests < MaxInitial
    /\ feedMounted' = TRUE
    /\ visibleIndex' = 0
    /\ initialRequests' = IF contentBuffer = <<>> THEN initialRequests + 1 ELSE initialRequests
    /\ Commit(Rendered(TRUE, TRUE, contentBuffer, 0))
    /\ rec' = IF contentBuffer = <<>> THEN decideNextContent(metrics) ELSE NoRec
    /\ UNCHANGED <<provVars, extendRequests, nextId, pinned>>

\* another view replaces the Feed; its requests stay in flight, its state is dropped
FeedUnmount ==
    /\ feedMounted
    /\ feedMounted' = FALSE
    /\ visibleIndex' = 0
    /\ rec' = NoRec
    /\ UNCHANGED <<provVars, pipeVars, initialRequests, extendRequests, nextId, pinned>>

\* newIndex >= contentBuffer.length - 2, the test that calls extendTrack
NearEnd(buf, newIndex) == newIndex >= Len(buf) - ExtendMargin

\* handleScroll with Math.round(scrollTop / clientHeight) = newIndex; extendTrack calls
\* decideNextContent(), which reads the metrics of the render closure
Scroll(newIndex) ==
    LET e == endInteraction(metrics, activeInteraction, interactionHistory, TRUE)
    IN /\ feedMounted
       /\ newIndex # visibleIndex
       /\ NearEnd(contentBuffer, newIndex) => extendRequests < MaxExtend
       /\ metrics' = e.m
       /\ interactionHistory' = e.history
       /\ activeInteraction' = IF InBuffer(contentBuffer, newIndex)
                               THEN startInteraction(At(contentBuffer, newIndex).id, "feed")
                               ELSE e.active
       /\ visibleIndex' = newIndex
       /\ extendRequests' = IF NearEnd(contentBuffer, newIndex)
                            THEN extendRequests + 1 ELSE extendRequests
       /\ Commit(Rendered(TRUE, FALSE, contentBuffer, newIndex))
       /\ rec' = IF NearEnd(contentBuffer, newIndex) THEN decideNextContent(metrics) ELSE NoRec
       /\ UNCHANGED <<feedMounted, initialRequests, nextId, pinned>>

\* positions the scroll container can report: one per card, 0 for the skeleton
ScrollPositions == 0..Max(Len(contentBuffer) - 1, 0)

\* generateImage resolves with an image for request r
ImageDone(r) ==
    /\ BagIn(r, imageRequests)
    /\ imageRequests' = imageRequests (-) SetToBag({r})
    /\ contentBuffer' = MarkReady(contentBuffer, r.index, r.title)
    /\ rec' = NoRec
    /\ UNCHANGED <<provVars, feedVars, issued, pinned>>

\* generateImage resolves with null, or rejects: nothing is written
ImageFail(r) ==
    /\ BagIn(r, imageRequests)
    /\ imageRequests' = imageRequests (-) SetToBag({r})
    /\ rec' = NoRec
    /\ UNCHANGED <<provVars, feedVars, contentBuffer, issued, pinned>>

\* loadInitialTrack resumes with a package of n items: setBuffer(initialItems)
InitialDone(n) ==
    /\ initialRequests > 0
    /\ nextId + n <= MaxItems
    /\ initialRequests' = initialRequests - 1
    /\ nextId' = nextId + n
    /\ Commit(Rendered(feedMounted, FALSE, NewItems(nextId, n), visibleIndex))
    /\ rec' = NoRec
    /\ UNCHANGED <<provVars, feedMounted, visibleIndex, extendRequests, pinned>>

\* extendTrack resumes with a package of n items: setBuffer(prev => [...prev, ...newItems])
ExtendDone(n) ==
    /\ extendRequests > 0
    /\ nextId + n <= MaxItems
    /\ extendRequests' = extendRequests - 1
    /\ nextId' = nextId + n
    /\ Commit(Rendered(feedMounted, FALSE, AppendItems(contentBuffer, NewItems(nextId, n)), visibleIndex))
    /\ rec' = NoRec
    /\ UNCHANGED <<provVars, feedMounted, visibleIndex, initialRequests, pinned>>

\* generatePredictivePackage rejects: the awaiting loadInitialTrack / extendTrack ends
InitialFail ==
    /\ initialRequests > 0
    /\ initialRequests' = initialRequests - 1
    /\ rec' = NoRec
    /\ UNCHANGED <<provVars, pipeVars, feedMounted, visibleIndex, extendRequests, nextId, pinned>>

ExtendFail ==
    /\ extendRequests > 0
    /\ extendRequests' = extendRequests - 1
    /\ rec' = NoRec
    /\ UNCHANGED <<provVars, pipeVars, feedMounted, visibleIndex, initialRequests, nextId, pinned>>

\* hydrateItem(index) called twice in a row from one render: both calls read the same
\* contentBuffer, the second before the first call's setBuffer is rendered
HydrateItemTwice(index) ==
    LET st == Pipeline(contentBuffer, imageRequests, issued)
    IN /\ feedMounted
       /\ Commit(hydrateItem(contentBuffer, hydrateItem(contentBuffer, st, index), index))
       /\ rec' = NoRec
       /\ UNCHANGED <<provVars, feedVars, pinned>>

----------------------------------------------------------------------------
(* Specifications *)

BatchSizes == 0..MaxBatch

\* the application: Feed, provider and the content-generation collaborator
Next ==
    \/ FeedMount
    \/ FeedUnmount
    \/ \E newIndex \in ScrollPositions : Scroll(newIndex)
    \/ \E r \in BagToSet(imageRequests) : ImageDone(r)
    \/ \E r \in BagToSet(imageRequests) : ImageFail(r)
    \/ \E n \in BatchSizes : InitialDone(n)
    \/ \E n \in BatchSizes : ExtendDone(n)
    \/ InitialFail
    \/ ExtendFail
    \/ ResetMetrics

Spec == Init /\ [][Next]_vars

\* the application, and hydrateItem called twice in a row from one render
NextCalls ==
    \/ Next
    \/ \E index \in 0..(MaxItems - 1) : HydrateItemTwice(index)

SpecCalls == Init /\ [][NextCalls]_vars

\* the provider's operations in every order
NextIBLM ==
    \/ StartInteraction(1, "feed")
    \/ \E d \in Durations : AdvanceTime(d)
    \/ \E success \in BOOLEAN : EndInteraction(success)
    \/ \E amount \in Amounts : ReportFrustration(amount)
    \/ ReportSuccess
    \/ Tick
    \/ ResetMetrics

SpecIBLM == InitIBLM /\ [][NextIBLM]_vars

\* the provider after the first package arrived while another view was shown;
\* decideNextContent() is called at any point and one call is remembered
InitPure ==
    /\ metrics = InitialMetrics
    /\ activeInteraction = NoInteraction
    /\ interactionHistory = <<>>
    /\ contentBuffer = NewItems(0, MaxBatch)
    /\ InitHistory
    /\ feedMounted = FALSE
    /\ visibleIndex = 0
    /\ imageRequests = EmptyBag
    /\ initialRequests = 0
    /\ extendRequests = 0
    /\ nextId = MaxBatch

PureAmounts == {LevelCap}

NextPure ==
    \/ StartInteraction(1, "feed")
    \/ \E d \in Durations : AdvanceTime(d)
    \/ EndInteraction(FALSE)
    \/ \E amount \in PureAmounts : ReportFrustration(amount)
    \/ ResetMetrics
    \/ DecideAndPin
    \/ DecideNextContent

SpecPure == InitPure /\ [][NextPure]_vars

\* the policy applied to every Metrics State of a bounded domain
AttentionSamples == {0, 1000, 3999, 4000, 4001, 12000}

MetricsDomain ==
    {[InitialMetrics EXCEPT !.frustrationLevel = f, !.topicStickiness = s,
                            !.attentionSpan = a,
                            !.energyLevel = IF a < AttentionThreshold THEN "HIGH" ELSE "CALM"] :
        f \in 0..LevelCap, s \in 0..LevelCap, a \in AttentionSamples}

InitPolicy ==
    /\ metrics \in MetricsDomain
    /\ activeInteraction = NoInteraction
    /\ interactionHistory = <<>>
    /\ contentBuffer = <<>>
    /\ InitHistory
    /\ feedMounted = FALSE
    /\ visibleIndex = 0
    /\ imageRequests = EmptyBag
    /\ initialRequests = 0
    /\ extendRequests = 0
    /\ nextId = 0

NextPolicy == DecideNextContent

SpecPolicy == InitPolicy /\ [][NextPolicy]_vars

\* the Feed with a user who keeps scrolling and a content generator that answers every
\* request with a package of at least one item; images always arrive
LiveBatches == 1..MaxBatch

ScrollSome == \E newIndex \in ScrollPositions : Scroll(newIndex)
InitialSome == \E n \in LiveBatches : InitialDone(n)
ExtendSome == \E n \in LiveBatches : ExtendDone(n)

NextLive ==
    \/ ScrollSome
    \/ \E r \in BagToSet(imageRequests) : ImageDone(r)
    \/ InitialSome
    \/ ExtendSome

SpecLive ==
    /\ Init
    /\ [][NextLive]_vars
    /\ WF_vars(InitialSome)
    /\ WF_vars(ExtendSome)
    /\ WF_vars(ScrollSome)
    /\ WF_vars(\E r \in BagToSet(imageRequests) : ImageDone(r))

\* the interaction tracker with dwell times on both sides of the long-dwell boundary
TrackerDurations == {2000, LongDwell, LongDwell + 1}
TrackerAmounts == {4}

NextTracker ==
    \/ StartInteraction(1, "feed")
    \/ \E d \in TrackerDurations : AdvanceTime(d)
    \/ \E success \in BOOLEAN : EndInteraction(success)
    \/ \E amount \in TrackerAmounts : ReportFrustration(amount)

SpecTracker == InitIBLM /\ [][NextTracker]_vars

\* the interaction tracker with dwell times whose mean falls just below 4000 ms
EnergyDurations == {2 * AttentionThreshold - 1}

NextEnergy ==
    \/ StartInteraction(1, "feed")
    \/ \E d \in EnergyDurations : AdvanceTime(d)
    \/ EndInteraction(TRUE)
    \/ ResetMetrics

SpecEnergy == InitIBLM /\ [][NextEnergy]_vars

\* startInteraction called while an interaction is active (the caller did not pair it
\* with an endInteraction)
StartOverActive(id, type) ==
    /\ activeInteraction # NoInteraction
    /\ StartInteraction(id, type)

NextPairing ==
    \/ StartInteraction(1, "feed")
    \/ StartOverActive(2, "feed")
    \/ \E d \in Durations : AdvanceTime(d)
    \/ \E success \in BOOLEAN : EndInteraction(success)

SpecPairing == InitIBLM /\ [][NextPairing]_vars

\* sessions in which every completed interaction lasted 12000 ms (scenario C)
DwellDurations == {12000}

\* endInteraction(true) of an interaction that lasted longer than 10000 ms
EndLong ==
    /\ activeInteraction.elapsed > LongDwell
    /\ EndInteraction(TRUE)

NextDwell ==
    \/ StartInteraction(1, "feed")
    \/ \E d \in DwellDurations : AdvanceTime(d)
    \/ EndLong
    \/ ReportFrustration(DefaultAmount)
    \/ DecideNextContent

SpecDwell == InitIBLM /\ [][NextDwell]_vars

\* a Feed that stays mounted in a session that is not reset: scrolls (with the metric
\* updates they make), image completions and failures, the initial batch and extensions
NextAppend ==
    \/ \E newIndex \in ScrollPositions : Scroll(newIndex)
    \/ \E r \in BagToSet(imageRequests) : ImageDone(r) \/ ImageFail(r)
    \/ \E n \in BatchSizes : InitialDone(n) \/ ExtendDone(n)
    \/ InitialFail
    \/ ExtendFail

SpecAppend == Init /\ [][NextAppend]_vars

----------------------------------------------------------------------------
(* Claims *)

InRange(x) == x >= 0 /\ x <= LevelCap

\* C1: in every reachable state frustrationLevel and topicStickiness are both within
\* [0, 10], whatever integer amounts reportFrustration is called with.
C1_LevelsInRange ==
    InRange(metrics.frustrationLevel) /\ InRange(metrics.topicStickiness)

Forward == {<<"EMPTY", "EMPTY">>, <<"HYDRATED", "HYDRATED">>, <<"READY", "READY">>,
            <<"EMPTY", "HYDRATED">>, <<"HYDRATED", "READY">>}

\* C2: the hydrationStatus of a buffer item only moves forward, EMPTY -> HYDRATED ->
\* READY, one stage at a time: no step takes an item back, and none takes it from EMPTY
\* straight to READY.
C2_ForwardOnly ==
    [][\A i \in DOMAIN contentBuffer : \A j \in DOMAIN contentBuffer' :
          contentBuffer[i].id = contentBuffer'[j].id =>
              <<contentBuffer[i].hydrationStatus, contentBuffer'[j].hydrationStatus>> \in Forward]_vars

\* C3: at most one generateImage request is ever issued per buffer item, also when
\* hydrateItem(i) is called twice in a row before the first call's update is visible.
C3_AtMostOneRequest == \A id \in ItemIds : issued[id] <= 1

\* C4 (as stated): the number of generateImage requests in flight at once never exceeds
\* the look-ahead window size 3.
C4_WindowBound == BagCardinality(imageRequests) <= LookAhead + 1

\* C4 (amended): the number of requests in flight never exceeds the number of items
\* generated so far (one request per item); it is not bounded by the window size.
C4_BoundedByItems == BagCardinality(imageRequests) <= nextId

C4_Witness ==
    /\ BagCardinality(imageRequests) = LookAhead + 2
    /\ Len(contentBuffer) = LookAhead + 2
    /\ visibleIndex = 1
    /\ \A i \in DOMAIN contentBuffer : contentBuffer[i].hydrationStatus = "HYDRATED"

\* C5 (as stated): attentionSpan equals the arithmetic mean of the recorded durations
\* kept in the history, and the 5000 ms baseline before any interaction has completed.
C5_ExactMean ==
    IF interactionHistory = <<>>
    THEN metrics.attentionSpan = AttentionBaseline
    ELSE metrics.attentionSpan * Len(interactionHistory) = Sum(interactionHistory)

\* attentionSpan is the integer nearest to the mean of the history (halves go up)
NearestToMean ==
    LET n == Len(interactionHistory)
        a == metrics.attentionSpan
    IN /\ 2 * n * a - n <= 2 * Sum(interactionHistory)
       /\ 2 * Sum(interactionHistory) < 2 * n * a + n

\* an endInteraction that found an active interaction puts its duration in front of the
\* history, keeps the others in their order and drops the oldest beyond five
WindowStep ==
    (activeInteraction # NoInteraction /\ activeInteraction' = NoInteraction) =>
        /\ Len(interactionHistory') = Min(HistoryWindow, Len(interactionHistory) + 1)
        /\ interactionHistory'[1] = activeInteraction.elapsed
        /\ \A i \in 2..Len(interactionHistory') : interactionHistory'[i] = interactionHistory[i - 1]

\* C5 (amended): attentionSpan is the mean of the most recent min(n, 5) durations
\* rounded to the nearest integer (Math.round), the history being kept in arrival order
\* with the oldest evicted first; it is 5000 while the history is empty.
C5_RoundedMean ==
    /\ [](IF interactionHistory = <<>>
          THEN metrics.attentionSpan = AttentionBaseline
          ELSE NearestToMean)
    /\ [][WindowStep]_vars

\* a sixth duration was recorded (stickiness 9 needs more than five interactions), the
\* oldest was evicted and the mean 7500 is over the five kept
C5_Witness ==
    /\ interactionHistory = <<0, 12500, 0, 12500, 12500>>
    /\ metrics.topicStickiness = 9
    /\ metrics.attentionSpan = 7500

Returned(d, f, t) == rec.difficulty = d /\ rec.format = f /\ rec.topicCategory = t

\* C7: whenever frustrationLevel > 3, decideNextContent returns EASY / GAME / CALM, for
\* every attentionSpan and topicStickiness.
C7_FrustrationFirst ==
    (rec # NoRec /\ metrics.frustrationLevel > 3) => Returned("EASY", "GAME", "CALM")

C7_Witness ==
    /\ metrics.frustrationLevel = 5
    /\ metrics.attentionSpan = 1000
    /\ Returned("EASY", "GAME", "CALM")

StatusAt(buf, index) == IF InBuffer(buf, index) THEN At(buf, index).hydrationStatus ELSE "NONE"

\* item index of the buffer entered HYDRATED in this step
Triggered(index) ==
    /\ StatusAt(contentBuffer', index) = "HYDRATED"
    /\ ~(/\ StatusAt(contentBuffer, index) = "HYDRATED"
         /\ At(contentBuffer, index).id = At(contentBuffer', index).id)

Window(v) == v..(v + 2)

\* C10: a run of the look-ahead effect at visible index v triggers hydration only for
\* the indices v, v+1 and v+2; when the visible index changes to v no item of that window
\* is left EMPTY, and a request is issued only for an item that entered HYDRATED.
C10_WindowOnly ==
    [][/\ \A index \in 0..(MaxItems + 1) :
             Triggered(index) => (feedMounted' /\ index \in Window(visibleIndex'))
       /\ (feedMounted /\ feedMounted' /\ visibleIndex' # visibleIndex) =>
             \A index \in Window(visibleIndex') : StatusAt(contentBuffer', index) # "EMPTY"
       /\ \A id \in ItemIds : issued'[id] # issued[id] =>
             /\ issued'[id] = issued[id] + 1
             /\ \E index \in Window(visibleIndex') :
                   /\ Triggered(index)
                   /\ At(contentBuffer', index).id = id
                   /\ \A i \in DOMAIN contentBuffer :
                         contentBuffer[i].id = id => contentBuffer[i].hydrationStatus = "EMPTY"]_vars

\* the visible index went 0, 1, 0 over two items, two more arrived, and it went to 1
\* again: item 0 is READY and was not requested again, items 1, 2 and 3 are in hydration
C10_Witness ==
    /\ feedMounted
    /\ visibleIndex = 1
    /\ Len(interactionHistory) = 2
    /\ extendRequests = 1
    /\ Len(contentBuffer) = 4
    /\ StatusAt(contentBuffer, 0) = "READY"
    /\ \A index \in 1..3 : StatusAt(contentBuffer, index) = "HYDRATED"
    /\ \A id \in ItemIds : issued[id] = 1

\* C11: once the visible index is within 2 items of the end of a buffer that has a
\* position further from the end, and a batch requested there is still awaited, a scroll
\* that stays within 2 items of the end does not invoke extendTrack again.
C11_OncePerCrossing ==
    [][(/\ feedMounted /\ feedMounted'
        /\ Len(contentBuffer) > ExtendMargin
        /\ visibleIndex' # visibleIndex
        /\ NearEnd(contentBuffer, visibleIndex)
        /\ NearEnd(contentBuffer, visibleIndex')
        /\ extendRequests > 0)
       => extendRequests' <= extendRequests]_vars

\* every item of the buffer is at the same index after the step
KeptInPlace ==
    \A i \in DOMAIN contentBuffer :
        i \in DOMAIN contentBuffer' /\ contentBuffer'[i].id = contentBuffer[i].id

\* C12 (as stated): an item once inserted is never removed and never changes its index,
\* over loadInitialTrack, extendTrack, hydrateItem, completions and resetMetrics.
C12_AppendOnly == [][KeptInPlace]_vars

\* C12 (amended): a step keeps every item at its index (changing at most its status and
\* image), except that resetMetrics empties the buffer and loadInitialTrack installs its
\* package in place of whatever the buffer holds.
C12_AppendOnlyUntilCleared ==
    [][\/ KeptInPlace
       \/ /\ contentBuffer' = <<>>
          /\ metrics' = ResetValue
          /\ interactionHistory' = <<>>
       \/ /\ initialRequests' = initialRequests - 1
          /\ Len(contentBuffer') = nextId' - nextId
          /\ \A i \in DOMAIN contentBuffer' : contentBuffer'[i].id = nextId + i]_vars

\* items 1 and 2 were removed: the buffer holds items 3 and 4, and item 3 was updated
\* in place
C12_Witness ==
    /\ Len(contentBuffer) = 2
    /\ contentBuffer[1].id = 3 /\ contentBuffer[1].hydrationStatus = "READY"
    /\ contentBuffer[2].id = 4
    /\ extendRequests = 0 /\ initialRequests = 0
    /\ metrics.attentionSpan = AttentionBaseline

OwnRequestPending(id) == \E r \in BagToSet(imageRequests) : r.title = id

\* the item at i is in hydration and its own request is over: the request failed
Stalled(i) ==
    /\ contentBuffer[i].hydrationStatus = "HYDRATED"
    /\ ~OwnRequestPending(contentBuffer[i].id)

\* C13: an item whose generateImage request failed or returned nothing stays HYDRATED
\* (it never becomes READY or EMPTY), no further request is issued for it, and a step
\* in which a request ends without a write leaves the metrics as they were.
C13_FailedStays ==
    [][/\ \A i \in DOMAIN contentBuffer : Stalled(i) =>
             /\ issued'[contentBuffer[i].id] = issued[contentBuffer[i].id]
             /\ \A j \in DOMAIN contentBuffer' :
                   contentBuffer'[j].id = contentBuffer[i].id =>
                       contentBuffer'[j].hydrationStatus = "HYDRATED"
       /\ (BagCardinality(imageRequests') < BagCardinality(imageRequests)
            /\ contentBuffer' = contentBuffer) => metrics' = metrics]_vars

\* C14: resetMetrics restores attentionSpan, frustrationLevel, energyLevel and
\* topicStickiness to the baseline, clears the history, and leaves sessionDuration as it
\* was immediately before the reset.
C14_ResetKeepsSession ==
    [][ResetMetrics =>
          /\ metrics'.attentionSpan = AttentionBaseline
          /\ metrics'.frustrationLevel = 0
          /\ metrics'.energyLevel = "CALM"
          /\ metrics'.topicStickiness = StickinessBaseline
          /\ interactionHistory' = <<>>
          /\ metrics'.sessionDuration = metrics.sessionDuration]_vars

\* C15: while no interaction is active, endInteraction(success) can be called for either
\* value of success and leaves metrics, history and active interaction as they are (it
\* touches nothing else: the buffer is not among the things it writes).
C15_EndWithoutStartNoOp ==
    activeInteraction = NoInteraction =>
        \A success \in BOOLEAN :
            /\ ENABLED EndInteraction(success)
            /\ endInteraction(metrics, activeInteraction, interactionHistory, success)
                  = [m |-> metrics, active |-> NoInteraction, history |-> interactionHistory]

\* a first endInteraction has recorded 12500 ms and raised the stickiness; none is active
\* now, which is where a second endInteraction directly after it finds the provider
C15_Witness ==
    /\ activeInteraction = NoInteraction
    /\ interactionHistory = <<12500>>
    /\ metrics.topicStickiness = StickinessBaseline + 1

\* C16: hydrateItem(index) with an index at or beyond the end of the buffer (any index
\* when it is empty) changes no item and issues no request.
C16_OutOfRangeNoOp ==
    LET st == Pipeline(contentBuffer, imageRequests, issued)
    IN \A index \in Len(contentBuffer)..(MaxItems + LookAhead) :
          hydrateItem(contentBuffer, st, index) = st

\* the look-ahead effect ran at the last index of a three-item buffer: hydrateItem(3)
\* and hydrateItem(4) found no item, and the only requests are the three items' own
C16_Witness ==
    /\ feedMounted
    /\ Len(contentBuffer) = 3
    /\ visibleIndex = 2
    /\ \A i \in 1..3 : contentBuffer[i].hydrationStatus = "HYDRATED" /\ contentBuffer[i].id = i
    /\ BagCardinality(imageRequests) = 3
    /\ \A id \in 1..3 : issued[id] = 1

\* C17: the result of a decideNextContent() call is the policy's value on the Metrics
\* State that results from every mutation issued before the call: frustration above 3
\* gives EASY / GAME / CALM, else attention below 4000 gives EASY / VIDEO / HIGH_ENERGY.
C17_SeesEarlierMutations ==
    rec # NoRec =>
        /\ metrics.frustrationLevel > 3 => Returned("EASY", "GAME", "CALM")
        /\ (metrics.frustrationLevel <= 3 /\ metrics.attentionSpan < 4000) =>
              Returned("EASY", "VIDEO", "HIGH_ENERGY")

\* C18: whenever the visible index is within 2 items of the end of the buffer, the buffer
\* eventually grows (for every length that leaves room for a whole package within the
\* items modelled), given that every package request is answered with at least one item.
C18_NeverHardEnd ==
    \A L \in 1..(MaxItems - MaxBatch) :
        [](( /\ feedMounted
             /\ Len(contentBuffer) = L
             /\ NearEnd(contentBuffer, visibleIndex))
           => <>(Len(contentBuffer) > L))

OnlyFrustrationChanged ==
    /\ [metrics' EXCEPT !.frustrationLevel = metrics.frustrationLevel] = metrics
    /\ UNCHANGED <<interactionHistory, activeInteraction, contentBuffer>>

\* C21: reportFrustration(amount) sets frustrationLevel to min(10, old + amount), amount
\* being 1 when omitted, reportSuccess() sets it to max(0, old - 2), and both leave every
\* other field of the metrics, the history, the active interaction and the buffer alone.
C21_ReportUpdates ==
    [][/\ \A amount \in Amounts \cup {DefaultAmount} :
             ReportFrustration(amount) =>
                 /\ metrics'.frustrationLevel = Min(10, metrics.frustrationLevel + amount)
                 /\ OnlyFrustrationChanged
       /\ ReportSuccess =>
             /\ metrics'.frustrationLevel = Max(0, metrics.frustrationLevel - 2)
             /\ OnlyFrustrationChanged]_vars

\* an interaction of 12500 ms was recorded, reports then moved frustrationLevel to 6
\* while a second interaction is active: history, attentionSpan and topicStickiness are
\* those the recorded interaction left
C21_Witness ==
    /\ metrics.frustrationLevel = 6
    /\ interactionHistory = <<12500>>
    /\ metrics.topicStickiness = StickinessBaseline + 1
    /\ metrics.attentionSpan = 12500
    /\ activeInteraction # NoInteraction

\* C22: a startInteraction called while an interaction is active replaces it by the new
\* one with a fresh clock, pushes nothing to the history and changes no metric; the
\* endInteraction that follows records the age of the interaction it finds, so the time
\* of the replaced one is in no history.
C22_StartOverwrites ==
    [][/\ \A id \in {1, 2} :
             (activeInteraction # NoInteraction /\ StartInteraction(id, "feed")) =>
                 /\ activeInteraction' = [id |-> id, elapsed |-> 0, type |-> "feed"]
                 /\ UNCHANGED <<interactionHistory, metrics, contentBuffer>>
       /\ (activeInteraction # NoInteraction /\ activeInteraction' = NoInteraction) =>
             /\ interactionHistory'[1] = activeInteraction.elapsed
             /\ Len(interactionHistory') = Min(HistoryWindow, Len(interactionHistory) + 1)]_vars

\* interaction 2 replaced an active interaction (it is started in no other way): it is
\* the active one with a fresh clock, the history is empty and the metrics are initial
C22_Witness ==
    /\ activeInteraction = [id |-> 2, elapsed |-> 0, type |-> "feed"]
    /\ interactionHistory = <<>>
    /\ metrics = InitialMetrics

\* C23: from the baseline topicStickiness 5, k consecutive completed interactions of
\* more than 10000 ms raise topicStickiness by 1 each up to the cap 10 (five of 12000 ms
\* give 10, with attentionSpan 12000), and a decideNextContent() called after them in a
\* later event with frustrationLevel <= 3 returns HARD / STORY / STANDARD exactly when
\* topicStickiness exceeds 7.
C23_LongDwellsRaiseStickiness ==
    /\ [](LET k == Len(interactionHistory) IN
            /\ k < HistoryWindow => metrics.topicStickiness = StickinessBaseline + k
            /\ k = HistoryWindow => metrics.topicStickiness = 10
            /\ k > 0 => metrics.attentionSpan = 12000
            /\ (rec # NoRec /\ metrics.frustrationLevel <= 3) =>
                   (metrics.topicStickiness > 7 <=> Returned("HARD", "STORY", "STANDARD")))
    /\ [][EndLong => metrics'.topicStickiness = Min(10, metrics.topicStickiness + 1)]_vars

\* five interactions of 12000 ms were completed and decideNextContent() was then called
C23_Witness ==
    /\ interactionHistory = <<12000, 12000, 12000, 12000, 12000>>
    /\ metrics.topicStickiness = 10
    /\ metrics.attentionSpan = 12000
    /\ metrics.frustrationLevel <= 3
    /\ Returned("HARD", "STORY", "STANDARD")

\* item is as it entered the buffer at position k (from 1) in this step: no asset, and
\* EMPTY unless the look-ahead effect of the render that follows requested its image
EnteredEmpty(item, k) ==
    /\ item.imageUrl = NoImage
    /\ \/ item.hydrationStatus = "EMPTY"
       \/ /\ item.hydrationStatus = "HYDRATED"
          /\ feedMounted
          /\ k - 1 \in visibleIndex..(visibleIndex + LookAhead)
          /\ issued'[item.id] = 1

\* the item at position k is as before the step, unless it was EMPTY and the look-ahead
\* effect of the render that follows requested its image
LeftInPlace(k) ==
    \/ contentBuffer'[k] = contentBuffer[k]
    \/ /\ contentBuffer[k].hydrationStatus = "EMPTY"
       /\ contentBuffer'[k] = [contentBuffer[k] EXCEPT !.hydrationStatus = "HYDRATED"]
       /\ feedMounted
       /\ k - 1 \in visibleIndex..(visibleIndex + LookAhead)

\* C24: every item enters the buffer EMPTY and without an asset, installed by
\* loadInitialTrack or appended by extendTrack (the render that follows may at once
\* request the image of an item of the look-ahead window); extendTrack keeps the items
\* already present, their status and asset, and puts the new items after them.
C24_EnterEmpty ==
    [][\A n \in BatchSizes :
          /\ InitialDone(n) =>
                /\ Len(contentBuffer') = n
                /\ \A k \in 1..n :
                      /\ contentBuffer'[k].id = nextId + k
                      /\ EnteredEmpty(contentBuffer'[k], k)
          /\ ExtendDone(n) =>
                /\ Len(contentBuffer') = Len(contentBuffer) + n
                /\ \A k \in 1..Len(contentBuffer) : LeftInPlace(k)
                /\ \A k \in 1..n :
                      /\ contentBuffer'[Len(contentBuffer) + k].id = nextId + k
                      /\ EnteredEmpty(contentBuffer'[Len(contentBuffer) + k],
                                      Len(contentBuffer) + k)]_vars

\* two items were appended to a buffer of two whose first item has its image: the
\* first item is as it was, the fourth is EMPTY behind the look-ahead window
C24_Witness ==
    /\ Len(contentBuffer) = 4
    /\ visibleIndex = 0
    /\ contentBuffer[1] = [id |-> 1, imageUrl |-> 1, hydrationStatus |-> "READY"]
    /\ contentBuffer[3] = [id |-> 3, imageUrl |-> NoImage, hydrationStatus |-> "HYDRATED"]
    /\ contentBuffer[4] = EmptyItem(4)

WithSession(m, d) == [m EXCEPT !.sessionDuration = d]

\* each call gives, on metrics that ticks have advanced, the result it gives without
\* the ticks, with the ticks added
TicksCommute ==
    \A t \in 0..metrics.sessionDuration :
        LET m == WithSession(metrics, metrics.sessionDuration - t)
            e(x) == endInteraction(x, activeInteraction, interactionHistory, TRUE).m
            f(x) == endInteraction(x, activeInteraction, interactionHistory, FALSE).m
        IN /\ e(metrics) = WithSession(e(m), metrics.sessionDuration)
           /\ f(metrics) = WithSession(f(m), metrics.sessionDuration)
           /\ SuccessUpdate(metrics) = WithSession(SuccessUpdate(m), metrics.sessionDuration)
           /\ \A amount \in Amounts :
                 FrustrationUpdate(metrics, amount) =
                     WithSession(FrustrationUpdate(m, amount), metrics.sessionDuration)

\* C26: a tick adds exactly 1 to sessionDuration and changes nothing else; no other
\* call but resetMetrics changes sessionDuration, and endInteraction, reportFrustration
\* and reportSuccess give the other fields the values they give without the ticks, so
\* after t ticks interleaved with them sessionDuration is t and no update is lost.
C26_TicksAndUpdates ==
    /\ []TicksCommute
    /\ [][/\ Tick =>
               /\ metrics'.sessionDuration = metrics.sessionDuration + 1
               /\ WithSession(metrics', metrics.sessionDuration) = metrics
               /\ UNCHANGED <<interactionHistory, activeInteraction, contentBuffer>>
          /\ (~Tick /\ ~ResetMetrics) => metrics'.sessionDuration = metrics.sessionDuration]_vars

\* two ticks in a session with a recorded interaction of 12500 ms and reports that
\* left frustrationLevel 3: sessionDuration is 2 and the other fields are those of the
\* calls
C26_Witness ==
    /\ metrics.sessionDuration = 2
    /\ interactionHistory = <<12500>>
    /\ metrics.attentionSpan = 12500
    /\ metrics.topicStickiness = StickinessBaseline + 1
    /\ metrics.frustrationLevel = 3

\* C27: an image is attached only to the item it was requested for (the image of a
\* request is that of the item's title), also when the buffer was cleared by
\* resetMetrics or replaced by a later loadInitialTrack while the request was in flight.
C27_AssetOnOwnItem ==
    \A i \in DOMAIN contentBuffer :
        contentBuffer[i].imageUrl # NoImage => contentBuffer[i].imageUrl = contentBuffer[i].id

\* C28: a buffer item is READY if and only if it has an image: EMPTY and HYDRATED items
\* have none, and a completion without an image marks nothing READY.
C28_ReadyIffImage ==
    \A i \in DOMAIN contentBuffer :
        /\ contentBuffer[i].hydrationStatus \in {"EMPTY", "HYDRATED", "READY"}
        /\ contentBuffer[i].hydrationStatus = "READY" <=> contentBuffer[i].imageUrl # NoImage

\* the three statuses side by side: item 1 READY with its image, item 2 in hydration
\* with no image after its request ended without one, item 4 EMPTY
C28_Witness ==
    /\ Len(contentBuffer) = 4
    /\ contentBuffer[1] = [id |-> 1, imageUrl |-> 1, hydrationStatus |-> "READY"]
    /\ Stalled(2)
    /\ contentBuffer[4] = EmptyItem(4)

\* C29: whenever an interaction is active and the Feed is on screen, the interaction
\* has the id of the buffer item at the Feed's visible index.
C29_ActiveIsVisible ==
    (activeInteraction # NoInteraction /\ feedMounted) =>
        /\ InBuffer(contentBuffer, visibleIndex)
        /\ At(contentBuffer, visibleIndex).id = activeInteraction.id

\* C30: resetMetrics leaves the active interaction as it is, with the time it has run,
\* and the endInteraction that follows a reset records that time as the only entry of
\* the history.
C30_ResetKeepsActive ==
    [][/\ ResetMetrics =>
             /\ activeInteraction' = activeInteraction
             /\ interactionHistory' = <<>>
       /\ \A success \in BOOLEAN :
             (interactionHistory = <<>> /\ activeInteraction # NoInteraction
                  /\ EndInteraction(success)) =>
                 interactionHistory' = <<activeInteraction.elapsed>>]_vars

\* a reset happened (the buffer of the session is cleared) and an interaction of
\* 12500 ms was then ended: its time is the only entry of the history
C30_Witness ==
    /\ contentBuffer = <<>>
    /\ interactionHistory = <<12500>>
    /\ activeInteraction = NoInteraction
    /\ metrics.attentionSpan = 12500
    /\ metrics.topicStickiness = StickinessBaseline + 1

====
